---- MODULE Spec2Model ----
(***************************************************************************)
(* A model of src/app.py: the paginated Fetcher (fetch_data_from_api), the *)
(* 30-day window splitter (fetch_bid_data_split) inside one pipeline run,  *)
(* the four normalizers (process_*_for_excel) and the urgency test of      *)
(* the sheet renderer (convert_df_to_excel.apply_styles).                  *)
(***************************************************************************)
EXTENDS Integers, Sequences, FiniteSets, TLC

VARIABLES
    url,        \* fetch_data_from_api: the endpoint of the call
    page,       \* fetch_data_from_api: the page counter
    all_items,  \* fetch_data_from_api: the accumulated items, <<page, index>> each
    fpc,        \* fetch_data_from_api: "loop" inside while True, "returned" after return
    requested,  \* the requests sent so far: [pageNo, numOfRows]
    answers,    \* the responses received so far, one per request
    warnings,   \* number of st.error notices emitted by the call
    turn        \* parity of the number of passes of the loop body so far

fetchVars == <<url, page, all_items, fpc, requested, answers, warnings, turn>>

VARIABLES
    checks,     \* the sources selected: check_order, check_prior, check_bid, check_rd
    keywords,   \* the keyword list of the run
    bid_months, \* the lookback of the bid-notice source, in months
    pos,        \* where the run stands: [st, k, w], keyword k, window w
    now,        \* fetch_bid_data_split: datetime.now(), in seconds
    all_rd_raw, \* the raw RD records of the run
    all_o,      \* the raw order-plan records of the run
    all_p,      \* the raw prior-spec records of the run
    all_results, \* fetch_bid_data_split: the raw bid-notice records
    events,     \* the Fetcher calls and progress callbacks of the run, in order
    lastCall    \* the latest Fetcher call of the run: answers, requests, result

runVars == <<checks, keywords, bid_months, pos, now, all_rd_raw, all_o, all_p,
             all_results, events, lastCall>>

VARIABLES
    sheet_name, \* apply_styles: the sheet being styled
    ws,         \* the data rows written to the sheet: [deadline, url] cells
    sheet_now,  \* convert_df_to_excel: now = datetime.now(), in seconds
    styled      \* the rows styled so far: [is_urgent, font, fill]

sheetVars == <<sheet_name, ws, sheet_now, styled>>

VARIABLES
    source,     \* the source whose raw records are normalized
    raw,        \* the raw records fetched for it, in order
    in_keywords, \* keywords, as process_rd_for_excel gets them
    exclude_kws, \* exclude_keywords of the run
    npc,        \* "raw" before the normalizer is called, "done" after
    table       \* what the normalizer returned, or that it raised

normVars == <<source, raw, in_keywords, exclude_kws, npc, table>>

vars == <<fetchVars, runVars, sheetVars, normVars>>

-----------------------------------------------------------------------------
(* Bounds of the model.                                                    *)

\* pages a non-RD fetch is followed for (its loop has no cap of its own)
MaxPages == 3
\* largest item count of one page of a non-RD endpoint
MaxItems == 2
\* largest totalCount a non-RD response reports
MaxTotal == 4
\* RD pages that may carry more items than the numOfRows asked for
MaxOversize == 1
\* largest lookback of a run, in months (the slider allows 1..12)
MaxMonths == 2
\* most data rows of a styled sheet
MaxSheetRows == 2
\* most raw records of one normalizer call
MaxRaw == 2

-----------------------------------------------------------------------------
(* Endpoints and request parameters.                                       *)

ORDER_PLAN_URL == "OrderPlanSttusService"
PRIOR_SPEC_URL == "HrcspSsstndrdInfoService"
BID_NOTICE_URL == "BidPublicInfoService"
RD_NOTICE_URL == "msitBusinessNotice"

Endpoints == {ORDER_PLAN_URL, PRIOR_SPEC_URL, BID_NOTICE_URL, RD_NOTICE_URL}

\* "msitBusinessNotice" in url
IsRD(u) == u = RD_NOTICE_URL

RD_NUM_OF_ROWS == 10
STD_NUM_OF_ROWS == 500
RD_PAGE_CAP == 30

\* params["numOfRows"] of a request to endpoint u
NumOfRows(u) == IF IsRD(u) THEN RD_NUM_OF_ROWS ELSE STD_NUM_OF_ROWS

-----------------------------------------------------------------------------
(* Server responses.  exc: requests.get raised; status: the HTTP status;   *)
(* wellformed: ET.fromstring accepts the body; n: items under items/item;  *)
(* hasTotal: body/totalCount present; totalOk: int() accepts its text;     *)
(* total: its value.                                                       *)

Answer(e, s, w, k, h, o, t) ==
    [exc |-> e, status |-> s, wellformed |-> w, n |-> k,
     hasTotal |-> h, totalOk |-> o, total |-> t]

TransportError == Answer(TRUE, 0, FALSE, 0, FALSE, FALSE, 0)
Http(s) == Answer(FALSE, s, FALSE, 0, FALSE, FALSE, 0)
BadXml == Answer(FALSE, 200, FALSE, 0, FALSE, FALSE, 0)
OkNoTotal(k) == Answer(FALSE, 200, TRUE, k, FALSE, FALSE, 0)
OkBadTotal(k) == Answer(FALSE, 200, TRUE, k, TRUE, FALSE, 0)
OkTotal(k, t) == Answer(FALSE, 200, TRUE, k, TRUE, TRUE, t)

Failures == {TransportError, Http(500), Http(404), BadXml}

\* item counts of one page of endpoint u
ItemCounts(u) ==
    IF IsRD(u)
    THEN {0, 1, RD_NUM_OF_ROWS - 1, RD_NUM_OF_ROWS, RD_NUM_OF_ROWS + 1}
    ELSE 0..MaxItems

\* what the server of endpoint u may answer to one request (the RD feed
\* carries no totalCount)
Answers(u) ==
    Failures
    \cup {OkNoTotal(k) : k \in ItemCounts(u)}
    \cup (IF IsRD(u) THEN {}
          ELSE {OkBadTotal(k) : k \in ItemCounts(u)}
               \cup {OkTotal(k, t) : k \in ItemCounts(u), t \in 0..MaxTotal})

\* the response failed: status other than 200, transport exception, or
\* XML parse failure
Failed(r) == r.exc \/ r.status # 200 \/ ~r.wellformed

\* items the page loop takes from response r
Parsed(r) == IF Failed(r) THEN 0 ELSE r.n

-----------------------------------------------------------------------------
(* fetch_data_from_api, one iteration of while True.                       *)

\* the rows appended from page pg holding k items
PageItems(pg, k) == [j \in 1..k |-> <<pg, j>>]

Outcome(items, pg, stop, warn) ==
    [items |-> items, page |-> pg, stop |-> stop, warn |-> warn]

\* PageStep with the totalCount test strict (> for >=)
PageStep_StrictTotal(u, pg, items, r) ==
    IF r.exc THEN Outcome(items, pg, TRUE, FALSE)
    ELSE IF r.status = 500 THEN Outcome(items, pg, TRUE, pg = 1)
    ELSE IF r.status # 200 THEN Outcome(items, pg, TRUE, FALSE)
    ELSE IF ~r.wellformed THEN Outcome(items, pg, TRUE, FALSE)
    ELSE IF r.n = 0 THEN Outcome(items, pg, TRUE, FALSE)
    ELSE LET acc == items \o PageItems(pg, r.n) IN
         IF IsRD(u)
         THEN IF r.n < NumOfRows(u) \/ pg >= RD_PAGE_CAP
              THEN Outcome(acc, pg, TRUE, FALSE)
              ELSE Outcome(acc, pg + 1, FALSE, FALSE)
         ELSE IF r.hasTotal /\ ~r.totalOk THEN Outcome(acc, pg, TRUE, FALSE)
              ELSE IF r.hasTotal /\ Len(acc) > r.total
                   THEN Outcome(acc, pg, TRUE, FALSE)
                   ELSE Outcome(acc, pg + 1, FALSE, FALSE)

\* PageStep with the RD page cap tested after the increment (> for >=)
PageStep_LateCap(u, pg, items, r) ==
    IF r.exc THEN Outcome(items, pg, TRUE, FALSE)
    ELSE IF r.status = 500 THEN Outcome(items, pg, TRUE, pg = 1)
    ELSE IF r.status # 200 THEN Outcome(items, pg, TRUE, FALSE)
    ELSE IF ~r.wellformed THEN Outcome(items, pg, TRUE, FALSE)
    ELSE IF r.n = 0 THEN Outcome(items, pg, TRUE, FALSE)
    ELSE LET acc == items \o PageItems(pg, r.n) IN
         IF IsRD(u)
         THEN IF r.n < NumOfRows(u) \/ pg > RD_PAGE_CAP
              THEN Outcome(acc, pg, TRUE, FALSE)
              ELSE Outcome(acc, pg + 1, FALSE, FALSE)
         ELSE IF r.hasTotal /\ ~r.totalOk THEN Outcome(acc, pg, TRUE, FALSE)
              ELSE IF r.hasTotal /\ Len(acc) >= r.total
                   THEN Outcome(acc, pg, TRUE, FALSE)
                   ELSE Outcome(acc, pg + 1, FALSE, FALSE)

\* PageStep with the except branch giving up the accumulated items
PageStep_DropOnError(u, pg, items, r) ==
    IF r.exc THEN Outcome(<<>>, pg, TRUE, FALSE)
    ELSE IF r.status = 500 THEN Outcome(items, pg, TRUE, pg = 1)
    ELSE IF r.status # 200 THEN Outcome(items, pg, TRUE, FALSE)
    ELSE IF ~r.wellformed THEN Outcome(<<>>, pg, TRUE, FALSE)
    ELSE IF r.n = 0 THEN Outcome(items, pg, TRUE, FALSE)
    ELSE LET acc == items \o PageItems(pg, r.n) IN
         IF IsRD(u)
         THEN IF r.n < NumOfRows(u) \/ pg >= RD_PAGE_CAP
              THEN Outcome(acc, pg, TRUE, FALSE)
              ELSE Outcome(acc, pg + 1, FALSE, FALSE)
         ELSE IF r.hasTotal /\ ~r.totalOk THEN Outcome(acc, pg, TRUE, FALSE)
              ELSE IF r.hasTotal /\ Len(acc) >= r.total
                   THEN Outcome(acc, pg, TRUE, FALSE)
                   ELSE Outcome(acc, pg + 1, FALSE, FALSE)

\* the iteration for page pg of endpoint u with accumulated items, on response r
PageStep(u, pg, items, r) ==
    IF r.exc THEN Outcome(items, pg, TRUE, FALSE)
    ELSE IF r.status = 500 THEN Outcome(items, pg, TRUE, pg = 1)
    ELSE IF r.status # 200 THEN Outcome(items, pg, TRUE, FALSE)
    ELSE IF ~r.wellformed THEN Outcome(items, pg, TRUE, FALSE)
    ELSE IF r.n = 0 THEN Outcome(items, pg, TRUE, FALSE)
    ELSE LET acc == items \o PageItems(pg, r.n) IN
         IF IsRD(u)
         THEN IF r.n < NumOfRows(u) \/ pg >= RD_PAGE_CAP
              THEN Outcome(acc, pg, TRUE, FALSE)
              ELSE Outcome(acc, pg + 1, FALSE, FALSE)
         ELSE IF r.hasTotal /\ ~r.totalOk THEN Outcome(acc, pg, TRUE, FALSE)
              ELSE IF r.hasTotal /\ Len(acc) >= r.total
                   THEN Outcome(acc, pg, TRUE, FALSE)
                   ELSE Outcome(acc, pg + 1, FALSE, FALSE)

\* pages of answers so far that carried more items than asked for
Oversized(as, u) == Cardinality({i \in 1..Len(as) : Parsed(as[i]) > NumOfRows(u)})

\* the call fetch_data_from_api(u, params) starts
FetchInit ==
    /\ url \in Endpoints
    /\ page = 1
    /\ all_items = <<>>
    /\ fpc = "loop"
    /\ requested = <<>>
    /\ answers = <<>>
    /\ warnings = 0
    /\ turn = 0

\* one pass of the loop body: request page, read the answer, append, decide
FetchPage ==
    /\ fpc = "loop"
    /\ page <= (IF IsRD(url) THEN RD_PAGE_CAP + 1 ELSE MaxPages)
    /\ \E r \in Answers(url) :
         LET o == PageStep(url, page, all_items, r) IN
         /\ Oversized(Append(answers, r), url) <= MaxOversize
         /\ requested' = Append(requested, [pageNo |-> page, numOfRows |-> NumOfRows(url)])
         /\ answers' = Append(answers, r)
         /\ all_items' = o.items
         /\ page' = o.page
         /\ warnings' = warnings + (IF o.warn THEN 1 ELSE 0)
         /\ fpc' = IF o.stop THEN "returned" ELSE "loop"
    /\ turn' = 1 - turn
    /\ UNCHANGED <<url, runVars, sheetVars, normVars>>

\* what the decisions of the loop can still tell apart of the page counter
\* (page 1 from the later ones, the RD cap) and of the accumulated items
\* (their number against a totalCount, which is at most MaxTotal)
PageSeen(pg) == IF pg < RD_PAGE_CAP THEN pg ELSE RD_PAGE_CAP
ItemsSeen(items) ==
    IF Len(items) <= MaxTotal + 1 THEN items ELSE SubSeq(items, 1, MaxTotal + 1)

\* one pass of the loop body with no bound on the passes: of the requests
\* and answers the latest is kept, of the page counter and the items what
\* the loop's decisions depend on
FetchPass ==
    /\ fpc = "loop"
    /\ \E r \in Answers(url) :
         LET o == PageStep(url, page, all_items, r) IN
         /\ requested' = <<[pageNo |-> page, numOfRows |-> NumOfRows(url)]>>
         /\ answers' = <<r>>
         /\ all_items' = ItemsSeen(o.items)
         /\ page' = PageSeen(o.page)
         /\ warnings' = warnings + (IF o.warn THEN 1 ELSE 0)
         /\ fpc' = IF o.stop THEN "returned" ELSE "loop"
    /\ turn' = 1 - turn
    /\ UNCHANGED <<url, runVars, sheetVars, normVars>>

-----------------------------------------------------------------------------
(* fetch_data_from_api as one call: the loop run to its return on the      *)
(* answers as, taken in the order the requests are sent.                   *)

Request(u, pg) == [pageNo |-> pg, numOfRows |-> NumOfRows(u)]

RECURSIVE FetchLoop(_, _, _, _, _, _)
FetchLoop(u, pg, items, as, reqs, warned) ==
    IF Len(reqs) >= Len(as)
    THEN [items |-> items, requested |-> reqs, returned |-> FALSE, warned |-> warned]
    ELSE LET o == PageStep(u, pg, items, as[Len(reqs) + 1])
             sent == Append(reqs, Request(u, pg))
         IN  IF o.stop
             THEN [items |-> o.items, requested |-> sent, returned |-> TRUE,
                   warned |-> warned + (IF o.warn THEN 1 ELSE 0)]
             ELSE FetchLoop(u, o.page, o.items, as, sent,
                            warned + (IF o.warn THEN 1 ELSE 0))

RunFetch(u, as) == FetchLoop(u, 1, <<>>, as, <<>>, 0)

\* the answers a call of a run meets: at most one page of items, then the
\* page that ends the call
RunAnswers(u) ==
    {<<r>> : r \in Failures}
    \cup {<<OkNoTotal(IF IsRD(u) THEN RD_NUM_OF_ROWS ELSE 1), r>> : r \in Failures}
    \cup {<<IF IsRD(u) THEN OkNoTotal(1) ELSE OkTotal(1, 1)>>}
    \cup {<<OkNoTotal(0)>>}

-----------------------------------------------------------------------------
(* One pipeline run (if search_clicked), fetches only.                     *)

DAY == 86400
MINUTE == 60
WINDOW_DAYS == 30

\* strftime("%Y%m%d%H%M"): the timestamp to the minute, seconds dropped
Strftime(t) == t \div MINUTE

\* values of datetime.now(): on a full minute and inside one
NowValues == {500 * DAY, 500 * DAY + 7 * MINUTE + 59}

KeywordLists == {<<>>, <<"k1">>, <<"k1", "k2">>}

Pos(st, k, w) == [st |-> st, k |-> k, w |-> w]

RECURSIVE Settle(_, _, _, _)
\* the next statement of the run that acts, from candidate position p
Settle(p, c, kws, months) ==
    CASE p.st = "rd" ->
           IF c.rd THEN p ELSE Settle(Pos("order03", 1, 0), c, kws, months)
      [] p.st = "order03" ->
           IF ~(c.order \/ c.prior) \/ p.k > Len(kws)
           THEN Settle(Pos("bidstart", 1, 0), c, kws, months)
           ELSE IF c.order THEN p ELSE Settle(Pos("prior", p.k, 0), c, kws, months)
      [] p.st = "order05" -> p
      [] p.st = "prior" ->
           IF c.prior THEN p ELSE Settle(Pos("order03", p.k + 1, 0), c, kws, months)
      [] p.st = "bidstart" -> IF c.bid THEN p ELSE Pos("done", 1, 0)
      [] p.st = "bid" ->
           IF p.w >= months THEN Pos("done", 1, 0)
           ELSE IF p.k > Len(kws) THEN Pos("progress", 1, p.w) ELSE p
      [] OTHER -> p

After(p) == Settle(p, checks, keywords, bid_months)

NoCall == [url |-> "", answers |-> <<>>, requested |-> <<>>, items |-> <<>>,
           returned |-> TRUE, warned |-> 0]

FetchEvent(u, kw, bgn, end, cd) ==
    [ev |-> "fetch", url |-> u, kw |-> kw, bgn |-> bgn, end |-> end, cd |-> cd,
     w |-> pos.w, current |-> 0, total |-> 0]

ProgressEvent(current, total) ==
    [ev |-> "progress", url |-> "", kw |-> "", bgn |-> 0, end |-> 0, cd |-> "",
     w |-> pos.w, current |-> current, total |-> total]

\* the rows of call number c of the run
TagRows(c, items) == [j \in 1..Len(items) |-> <<c>> \o items[j]]

\* a Fetcher call of the run on endpoint u: its event, its result res
Call(u, ev, res) ==
    /\ res.returned
    /\ events' = Append(events, ev)
    /\ lastCall' = [url |-> u, answers |-> res.answers, requested |-> res.requested,
                    items |-> res.items, returned |-> res.returned,
                    warned |-> res.warned]

Fetched(u, as) == [answers |-> as] @@ RunFetch(u, as)

RunInit ==
    /\ checks \in [order : BOOLEAN, prior : BOOLEAN, bid : BOOLEAN, rd : BOOLEAN]
    /\ keywords \in KeywordLists
    /\ bid_months \in 1..MaxMonths
    /\ pos = Settle(Pos("rd", 1, 0), checks, keywords, bid_months)
    /\ now = 0
    /\ all_rd_raw = <<>>
    /\ all_o = <<>>
    /\ all_p = <<>>
    /\ all_results = <<>>
    /\ events = <<>>
    /\ lastCall = NoCall

\* all_rd_raw = fetch_data_from_api(RD_NOTICE_URL, ...)
RunRD ==
    /\ UNCHANGED <<fetchVars, sheetVars, normVars>>
    /\ pos.st = "rd"
    /\ \E as \in RunAnswers(RD_NOTICE_URL) :
         LET res == Fetched(RD_NOTICE_URL, as) IN
         /\ Call(RD_NOTICE_URL, FetchEvent(RD_NOTICE_URL, "", 0, 0, ""), res)
         /\ all_rd_raw' = TagRows(Len(events) + 1, res.items)
    /\ pos' = After(Pos("order03", 1, 0))
    /\ UNCHANGED <<checks, keywords, bid_months, now, all_o, all_p, all_results>>

\* all_o.extend(fetch_data_from_api(ORDER_PLAN_URL, ... "bsnsDivCd": cd ...))
RunOrder ==
    /\ UNCHANGED <<fetchVars, sheetVars, normVars>>
    /\ pos.st \in {"order03", "order05"}
    /\ \E as \in RunAnswers(ORDER_PLAN_URL) :
         LET res == Fetched(ORDER_PLAN_URL, as)
             cd == IF pos.st = "order03" THEN "03" ELSE "05"
         IN
         /\ Call(ORDER_PLAN_URL,
                 FetchEvent(ORDER_PLAN_URL, keywords[pos.k], 0, 0, cd), res)
         /\ all_o' = all_o \o TagRows(Len(events) + 1, res.items)
    /\ pos' = IF pos.st = "order03" THEN Pos("order05", pos.k, 0)
              ELSE After(Pos("prior", pos.k, 0))
    /\ UNCHANGED <<checks, keywords, bid_months, now, all_rd_raw, all_p, all_results>>

\* all_p.extend(fetch_data_from_api(PRIOR_SPEC_URL, ...))
RunPrior ==
    /\ UNCHANGED <<fetchVars, sheetVars, normVars>>
    /\ pos.st = "prior"
    /\ \E as \in RunAnswers(PRIOR_SPEC_URL) :
         LET res == Fetched(PRIOR_SPEC_URL, as) IN
         /\ Call(PRIOR_SPEC_URL,
                 FetchEvent(PRIOR_SPEC_URL, keywords[pos.k], 0, 0, ""), res)
         /\ all_p' = all_p \o TagRows(Len(events) + 1, res.items)
    /\ pos' = After(Pos("order03", pos.k + 1, 0))
    /\ UNCHANGED <<checks, keywords, bid_months, now, all_rd_raw, all_o, all_results>>

\* fetch_bid_data_split starts: all_results = [], now = datetime.now()
BidStart ==
    /\ UNCHANGED <<fetchVars, sheetVars, normVars>>
    /\ pos.st = "bidstart"
    /\ now' \in NowValues
    /\ all_results' = <<>>
    /\ pos' = After(Pos("bid", 1, 0))
    /\ UNCHANGED <<checks, keywords, bid_months, all_rd_raw, all_o, all_p, events,
                   lastCall>>

\* start_date one window too late (i for i + 1)
start_date_SameAsEnd(i) == now - i * WINDOW_DAYS * DAY

\* start of window i
start_date(i) == now - (i + 1) * WINDOW_DAYS * DAY
\* end of window i
end_date(i) == now - i * WINDOW_DAYS * DAY

\* fetch_bid_data_split: the fetch of keyword pos.k in window pos.w
BidFetch ==
    /\ UNCHANGED <<fetchVars, sheetVars, normVars>>
    /\ pos.st = "bid"
    /\ \E as \in RunAnswers(BID_NOTICE_URL) :
         LET res == Fetched(BID_NOTICE_URL, as)
             bgn_str == Strftime(start_date(pos.w))
             end_str == Strftime(end_date(pos.w))
         IN
         /\ Call(BID_NOTICE_URL,
                 FetchEvent(BID_NOTICE_URL, keywords[pos.k], bgn_str, end_str, ""), res)
         /\ all_results' = all_results \o TagRows(Len(events) + 1, res.items)
    /\ pos' = After(Pos("bid", pos.k + 1, pos.w))
    /\ UNCHANGED <<checks, keywords, bid_months, now, all_rd_raw, all_o, all_p>>

\* progress_callback(i + 1, months) with the windows shifted by one (i for i + 1)
ProgressArgs_Unshifted(i, months) == <<i, months>>

\* the arguments of progress_callback at the end of window i
ProgressArgs(i, months) == <<i + 1, months>>

\* fetch_bid_data_split: progress_callback(i + 1, months) at the end of window i
BidProgress ==
    /\ UNCHANGED <<fetchVars, sheetVars, normVars>>
    /\ pos.st = "progress"
    /\ events' = Append(events, ProgressEvent(ProgressArgs(pos.w, bid_months)[1],
                                               ProgressArgs(pos.w, bid_months)[2]))
    /\ pos' = After(Pos("bid", 1, pos.w + 1))
    /\ UNCHANGED <<checks, keywords, bid_months, now, all_rd_raw, all_o, all_p,
                   all_results, lastCall>>


-----------------------------------------------------------------------------
(* Texts are sequences of characters; a cell of a table is a text, an      *)
(* integer or NaN (a missing value).                                       *)

StrCell(t) == [k |-> "str", s |-> t, i |-> 0]
IntCell(n) == [k |-> "int", s |-> <<>>, i |-> n]
NaN == [k |-> "nan", s |-> <<>>, i |-> 0]

\* pd.notna(c)
notna(c) == c.k # "nan"

\* str(c) of a text or of NaN
Str(c) == IF c.k = "str" THEN c.s ELSE <<"n", "a", "n">>

RECURSIVE LStrip(_)
LStrip(t) == IF t # <<>> /\ Head(t) = " " THEN LStrip(Tail(t)) ELSE t

RECURSIVE RStrip(_)
RStrip(t) ==
    IF t # <<>> /\ t[Len(t)] = " " THEN RStrip(SubSeq(t, 1, Len(t) - 1)) ELSE t

\* t.strip()
Strip(t) == RStrip(LStrip(t))

\* needle in hay
Contains(needle, hay) ==
    \E i \in 0..(Len(hay) - Len(needle)) : SubSeq(hay, i + 1, i + Len(needle)) = needle

\* t.replace(',', '')
RemoveCommas(t) == SelectSeq(t, LAMBDA c : c # ",")

Digits == {"0", "1", "2", "3", "4", "5", "6", "7", "8", "9"}

DigitValue(c) ==
    CASE c = "0" -> 0 [] c = "1" -> 1 [] c = "2" -> 2 [] c = "3" -> 3 [] c = "4" -> 4
      [] c = "5" -> 5 [] c = "6" -> 6 [] c = "7" -> 7 [] c = "8" -> 8 [] c = "9" -> 9

\* the order of the characters the texts are made of (their code points)
CharCode(c) ==
    CASE c = " " -> 32 [] c = "+" -> 43 [] c = "," -> 44 [] c = "-" -> 45
      [] c = "." -> 46 [] c = "/" -> 47 [] c \in Digits -> 48 + DigitValue(c)
      [] c = "A" -> 65 [] c = "B" -> 66 [] c = "a" -> 97 [] c = "b" -> 98
      [] c = "n" -> 110 [] c = "o" -> 111 [] c = "t" -> 116 [] c = "u" -> 117
      [] c = "m" -> 109 [] c = "e" -> 101 [] c = "r" -> 114
      [] OTHER -> 120

RECURSIVE TextLess(_, _)
\* a < b for texts
TextLess(a, b) ==
    IF b = <<>> THEN FALSE
    ELSE IF a = <<>> THEN TRUE
    ELSE IF Head(a) = Head(b) THEN TextLess(Tail(a), Tail(b))
    ELSE CharCode(Head(a)) < CharCode(Head(b))

RECURSIVE DigitsValue(_)
\* the number a run of digits writes
DigitsValue(t) ==
    IF t = <<>> THEN 0 ELSE 10 * DigitsValue(SubSeq(t, 1, Len(t) - 1)) + DigitValue(t[Len(t)])

AllDigits(t) == \A j \in 1..Len(t) : t[j] \in Digits

\* int(float(t)): ok is FALSE where float() or int() raises; the texts have no
\* exponent, underscore, inf or nan spelling
IntOfFloat(t) ==
    LET u == Strip(t)
        signed == u # <<>> /\ u[1] \in {"+", "-"}
        body == IF signed THEN Tail(u) ELSE u
        dots == {j \in 1..Len(body) : body[j] = "."}
        whole == IF dots = {} THEN body
                 ELSE SubSeq(body, 1, (CHOOSE j \in dots : TRUE) - 1)
        frac == IF dots = {} THEN <<>>
                ELSE SubSeq(body, (CHOOSE j \in dots : TRUE) + 1, Len(body))
        valid == /\ Cardinality(dots) <= 1
                 /\ AllDigits(whole) /\ AllDigits(frac)
                 /\ Len(whole) + Len(frac) > 0
    IN  IF ~valid THEN [ok |-> FALSE, v |-> 0]
        ELSE [ok |-> TRUE,
              v |-> IF signed /\ u[1] = "-" THEN -DigitsValue(whole) ELSE DigitsValue(whole)]

\* t.zfill(2)
zfill2(t) ==
    IF Len(t) >= 2 THEN t
    ELSE IF t = <<>> THEN <<"0", "0">>
    ELSE IF t[1] \in {"+", "-"} THEN <<t[1], "0">>
    ELSE <<"0", t[1]>>

-----------------------------------------------------------------------------
(* Raw records and pd.DataFrame(records).drop_duplicates().  A tag is its  *)
(* spelling sp together with low = sp.lower(); a raw record is the         *)
(* row_data of one item: <<tag, text>> pairs in document order, the texts  *)
(* stripped; a frame is its column tags and its rows of cells.             *)

Tg(sp, low) == [sp |-> sp, low |-> low]

\* k.lower()
lower(t) == Tg(t.low, t.low)

RECURSIVE AddColumns(_, _)
\* the columns cols, then the tags of record rec not among them
AddColumns(cols, rec) ==
    IF rec = <<>> THEN cols
    ELSE AddColumns(IF \E j \in 1..Len(cols) : cols[j] = Head(rec)[1]
                    THEN cols ELSE Append(cols, Head(rec)[1]),
                    Tail(rec))

RECURSIVE ColumnsOf(_)
\* the columns of pd.DataFrame(recs): the tags in the order they first appear
ColumnsOf(recs) ==
    IF recs = <<>> THEN <<>>
    ELSE AddColumns(ColumnsOf(SubSeq(recs, 1, Len(recs) - 1)), recs[Len(recs)])

\* the row of record rec under the columns cols
RowOf(cols, rec) ==
    [j \in 1..Len(cols) |->
        IF \E q \in 1..Len(rec) : rec[q][1] = cols[j]
        THEN StrCell(rec[CHOOSE q \in 1..Len(rec) : rec[q][1] = cols[j]][2])
        ELSE NaN]

RECURSIVE Distinct(_)
\* drop_duplicates(): the first of equal rows is kept
Distinct(rows) ==
    IF rows = <<>> THEN <<>>
    ELSE LET front == Distinct(SubSeq(rows, 1, Len(rows) - 1))
             last == rows[Len(rows)]
         IN  IF \E j \in 1..Len(front) : front[j] = last THEN front
             ELSE Append(front, last)

\* pd.DataFrame(recs).drop_duplicates()
DataFrame(recs) ==
    LET cols == ColumnsOf(recs) IN
    [cols |-> cols, rows |-> Distinct([j \in 1..Len(recs) |-> RowOf(cols, recs[j])])]

\* df.empty
empty(df) == Len(df.cols) = 0 \/ Len(df.rows) = 0

-----------------------------------------------------------------------------
(* get_val, get_clean_val, apply_exclusion_filter.                         *)

\* k in row
HasKey(cols, k) == \E j \in 1..Len(cols) : cols[j] = k

\* row[k]
AtKey(cols, row, k) == row[CHOOSE j \in 1..Len(cols) : cols[j] = k]

\* k_lower in row_lower
HasLower(cols, k) == \E j \in 1..Len(cols) : lower(cols[j]) = lower(k)

\* row_lower[k_lower]: of the columns with one lower-cased spelling the last stays
AtLower(cols, row, k) ==
    row[CHOOSE j \in 1..Len(cols) :
            /\ lower(cols[j]) = lower(k)
            /\ \A q \in (j + 1)..Len(cols) : lower(cols[q]) # lower(k)]

\* pd.notna(v) and str(v).strip() != ''
Usable(c) == notna(c) /\ Strip(Str(c)) # <<>>

RECURSIVE get_val(_, _, _, _)
get_val(cols, row, possible_keys, default) ==
    IF possible_keys = <<>> THEN default
    ELSE LET k == Head(possible_keys) IN
         IF HasKey(cols, k) /\ Usable(AtKey(cols, row, k))
         THEN Strip(Str(AtKey(cols, row, k)))
         ELSE IF HasLower(cols, k) /\ Usable(AtLower(cols, row, k))
              THEN Strip(Str(AtLower(cols, row, k)))
              ELSE get_val(cols, row, Tail(possible_keys), default)

get_clean_val(cols, row, possible_keys) == get_val(cols, row, possible_keys, <<>>)

\* the rows of a table that apply_exclusion_filter keeps, on column target_col
apply_exclusion_filter(rows, target_col, exclude_keywords) ==
    IF rows = <<>> \/ exclude_keywords = <<>> THEN rows
    ELSE SelectSeq(rows, LAMBDA r :
            ~\E e \in 1..Len(exclude_keywords) :
                Contains(exclude_keywords[e], Str(r[target_col])))

-----------------------------------------------------------------------------
(* sort_values, reset_index, insert 'No.'.                                 *)

\* row a may stand before row b when sorting by column col: NaN goes last
InOrder(a, b, col, ascending) ==
    IF ~notna(b[col]) THEN TRUE
    ELSE IF ~notna(a[col]) THEN FALSE
    ELSE IF ascending THEN ~TextLess(b[col].s, a[col].s)
         ELSE ~TextLess(a[col].s, b[col].s)

\* the rows left as they stand, whatever the column holds
sort_values_Unsorted(rows, col, ascending) == {rows}

\* the orders sort_values(by=col) may leave the rows in (equal keys in any order)
sort_values(rows, col, ascending) ==
    LET n == Len(rows)
        perms == {f \in [1..n -> 1..n] : \A a, b \in 1..n : a # b => f[a] # f[b]}
    IN  {[j \in 1..n |-> rows[f[j]]] :
            f \in {g \in perms :
                     \A j \in 1..(n - 1) : InOrder(rows[g[j]], rows[g[j + 1]], col, ascending)}}

\* reset_index(drop=True) and insert(0, 'No.', range(1, len + 1))
Renumber(rows) == [j \in 1..Len(rows) |-> [rows[j] EXCEPT !["No"] = IntCell(j)]]

\* a normalizer returned the table of these rows
Table(cols, rows) == [raised |-> FALSE, cols |-> cols, rows |-> rows]

\* pd.DataFrame()
EmptyTable == Table({}, <<>>)

\* an exception left the normalizer
Raised == [raised |-> TRUE, cols |-> {}, rows |-> <<>>]

-----------------------------------------------------------------------------
(* process_order_for_excel.  Columns: svcClass '용역구분', bizType          *)
(* '업무구분', orderTiming '발주시기', bizName '사업명', totalAmt             *)
(* '총발주금액(원)', orderOrg '발주기관명', postDate '게시일자'.              *)

bsnsDivCd == Tg("bsnsDivCd", "bsnsdivcd")
bsnsTyNm == Tg("bsnsTyNm", "bsnstynm")
bztyNm == Tg("bztyNm", "bztynm")
orderYear == Tg("orderYear", "orderyear")
orderMnth == Tg("orderMnth", "ordermnth")
bizNm == Tg("bizNm", "biznm")
prdctClsfNoNm == Tg("prdctClsfNoNm", "prdctclsfnonm")
prdctClsfcNoNm == Tg("prdctClsfcNoNm", "prdctclsfcnonm")
cntrctNm == Tg("cntrctNm", "cntrctnm")
sumOrderAmt == Tg("sumOrderAmt", "sumorderamt")
totlAmt == Tg("totlAmt", "totlamt")
orderInsttNm == Tg("orderInsttNm", "orderinsttnm")
dmndInsttNm == Tg("dmndInsttNm", "dmndinsttnm")
realOrgNm == Tg("realOrgNm", "realorgnm")
nticeDt == Tg("nticeDt", "nticedt")
opengDt == Tg("opengDt", "opengdt")

OrderCols == {"No", "origin", "svcClass", "bizType", "orderTiming", "bizName",
              "totalAmt", "orderOrg", "postDate"}

OrderTitleKeys == <<bizNm, prdctClsfNoNm, prdctClsfcNoNm, cntrctNm>>
OrderMoneyKeys == <<sumOrderAmt, totlAmt>>

\* the text of the money lambda before int(float(...))
OrderMoneyText(cols, row) == RemoveCommas(get_val(cols, row, OrderMoneyKeys, <<"0">>))

\* the row of new_df made of row j of df; origin is its index label
OrderRow(df, j) ==
    LET cols == df.cols
        row == df.rows[j]
        cd == get_val(cols, row, <<bsnsDivCd>>, <<>>)
        year == get_val(cols, row, <<orderYear>>, <<>>)
    IN  [No |-> IntCell(0),
         origin |-> IntCell(j),
         svcClass |-> StrCell(IF cd = <<"0", "3">> THEN <<"G">>
                              ELSE IF cd = <<"0", "5">> THEN <<"T">> ELSE <<>>),
         bizType |-> StrCell(get_val(cols, row, <<bsnsTyNm, bztyNm>>, <<>>)),
         orderTiming |-> StrCell(IF year # <<>>
                                 THEN year \o <<"/">>
                                      \o zfill2(get_val(cols, row, <<orderMnth>>, <<>>))
                                 ELSE <<>>),
         bizName |-> StrCell(get_clean_val(cols, row, OrderTitleKeys)),
         totalAmt |-> IntCell(IntOfFloat(OrderMoneyText(cols, row)).v),
         orderOrg |-> StrCell(get_clean_val(cols, row,
                                            <<orderInsttNm, dmndInsttNm, realOrgNm>>)),
         postDate |-> StrCell(get_val(cols, row, <<nticeDt, opengDt>>, <<>>))]

\* the tables process_order_for_excel(df, exclude_keywords) may return
process_order_for_excel(df, exclude_keywords) ==
    IF empty(df) THEN {EmptyTable}
    ELSE IF \E j \in 1..Len(df.rows) : ~IntOfFloat(OrderMoneyText(df.cols, df.rows[j])).ok
    THEN {Raised}
    ELSE LET new_df == [j \in 1..Len(df.rows) |-> OrderRow(df, j)]
             valid == SelectSeq(new_df, LAMBDA r : Strip(r.bizName.s) # <<>>)
             kept == apply_exclusion_filter(valid, "bizName", exclude_keywords)
         IN  {Table(OrderCols, Renumber(sorted)) :
                 sorted \in sort_values(kept, "orderTiming", TRUE)}

-----------------------------------------------------------------------------
(* The column-by-column normalizers: process_prior_for_excel,              *)
(* process_bid_for_excel, process_rd_for_excel.  A column of new_df is     *)
(* named by the tag of col_map it comes from.                              *)

bsnsDivNm == Tg("bsnsDivNm", "bsnsdivnm")
asignBdgtAmt == Tg("asignBdgtAmt", "asignbdgtamt")
rcptDt == Tg("rcptDt", "rcptdt")
bidNtceNo == Tg("bidNtceNo", "bidntceno")
bidNtceNm == Tg("bidNtceNm", "bidntcenm")
bidNtceDt == Tg("bidNtceDt", "bidntcedt")
presmptPrce == Tg("presmptPrce", "presmptprce")
bidPrtcptFee == Tg("bidPrtcptFee", "bidprtcptfee")
subject == Tg("subject", "subject")
deptName == Tg("deptName", "deptname")
regDate == Tg("regDate", "regdate")
viewUrl == Tg("viewUrl", "viewurl")

\* col_map of process_prior_for_excel, in its order
PriorMap ==
    <<bsnsDivNm, Tg("refNo", "refno"), prdctClsfcNoNm, orderInsttNm,
      Tg("rlDminsttNm", "rldminsttnm"), asignBdgtAmt, rcptDt,
      Tg("opninRgstClseDt", "opninrgstclsedt"), Tg("ofclNm", "ofclnm"),
      Tg("ofclTelNo", "ofcltelno"), Tg("swBizObjYn", "swbizobjyn"),
      Tg("dlvrTmlmtDt", "dlvrtmlmtdt"), Tg("dlvrDaynum", "dlvrdaynum"),
      Tg("bfSpecRgstNo", "bfspecrgstno"),
      Tg("specDocFileUrl1", "specdocfileurl1"), Tg("rgstDt", "rgstdt"),
      Tg("chgDt", "chgdt"), Tg("bidNtceNoList", "bidntcenolist")>>

\* col_map of process_bid_for_excel, in its order
BidMap ==
    <<bidNtceNo, Tg("bidNtceOrd", "bidntceord"),
      Tg("reNtceYn", "rentceyn"), bidNtceNm,
      Tg("ntceKindNm", "ntcekindnm"), Tg("bidMethdNm", "bidmethdnm"),
      Tg("cntrctCnclsMthdNm", "cntrctcnclsmthdnm"),
      Tg("sucsfbidMthdNm", "sucsfbidmthdnm"),
      Tg("ntceInsttNm", "ntceinsttnm"), Tg("dminsttNm", "dminsttnm"),
      Tg("ntceInsttOfclNm", "ntceinsttofclnm"),
      Tg("ntceInsttOfclTelNo", "ntceinsttofcltelno"), bidNtceDt,
      Tg("bidBeginDt", "bidbegindt"), Tg("bidClseDt", "bidclsedt"),
      opengDt, Tg("bidQlfctRgstDt", "bidqlfctrgstdt"), asignBdgtAmt,
      presmptPrce, bidPrtcptFee, Tg("bidNtceUrl", "bidntceurl"),
      Tg("bfSpecRgstNo", "bfspecrgstno"), Tg("refNo", "refno"),
      Tg("cmmnSpldmdMethdNm", "cmmnspldmdmethdnm"),
      Tg("prearngPrceDcsnMthdNm", "prearngprcedcsnmthdnm"),
      Tg("opengPlce", "opengplce"),
      Tg("brffcBidprcPermsnYn", "brffcbidprcpermsnyn")>>

\* col_map of process_rd_for_excel, in its order
RDMap == <<subject, deptName, regDate, viewUrl>>

PriorMoney == {asignBdgtAmt}
BidMoney == {asignBdgtAmt, presmptPrce, bidPrtcptFee}

\* parse_money(x): int(float(str(x).replace(',', '').strip())), 0 on any exception
parse_money(x) ==
    LET n == IntOfFloat(RemoveCommas(Str(x))) IN IF n.ok THEN n.v ELSE 0

\* the column of df for tag: the first whose lower-cased spelling is the
\* tag's (prior, bid), or the column spelled as the tag (RD); 0 if none
found_col(df, tag, exact) ==
    LET hits == {j \in 1..Len(df.cols) :
                    IF exact THEN df.cols[j] = tag ELSE lower(df.cols[j]) = lower(tag)}
    IN  IF hits = {} THEN 0 ELSE CHOOSE j \in hits : \A q \in hits : j <= q

\* the first entry of col_map that has a column in df; 0 if none.  Until
\* then new_df has no index, and the columns set from a scalar before it
\* are filled with NaN when the index arrives.
FirstFound(df, map, exact) ==
    LET hits == {m \in 1..Len(map) : found_col(df, map[m], exact) # 0}
    IN  IF hits = {} THEN 0 ELSE CHOOSE m \in hits : \A q \in hits : m <= q

\* the cell of row j of new_df in the column of entry m of col_map
ColumnCell(df, map, money, exact, fill, m, j) ==
    LET c == found_col(df, map[m], exact) IN
    IF c # 0
    THEN IF map[m] \in money THEN IntCell(parse_money(df.rows[j][c]))
         ELSE IF fill /\ ~notna(df.rows[j][c]) THEN StrCell(<<>>)
         ELSE df.rows[j][c]
    ELSE IF m < FirstFound(df, map, exact) THEN NaN
         ELSE IF map[m] \in money THEN IntCell(0) ELSE StrCell(<<>>)

ColIds(map) == {map[m].sp : m \in 1..Len(map)}

\* new_df after the loop over col_map; origin is the index label of the row
ColumnWise(df, map, money, exact, fill, derived) ==
    IF FirstFound(df, map, exact) = 0 THEN <<>>
    ELSE [j \in 1..Len(df.rows) |->
            [c \in ColIds(map) \cup {"No", "origin"} \cup derived |->
                IF c = "No" \/ c \in derived THEN IntCell(0)
                ELSE IF c = "origin" THEN IntCell(j)
                ELSE ColumnCell(df, map, money, exact, fill,
                                CHOOSE m \in 1..Len(map) : map[m].sp = c, j)]]

\* .str.strip() != '' on a title cell: NaN stays NaN, which differs from ''
TitleKept(c) == ~notna(c) \/ Strip(c.s) # <<>>

\* the tables process_prior_for_excel(df, exclude_keywords) may return
process_prior_for_excel(df, exclude_keywords) ==
    IF empty(df) THEN {EmptyTable}
    ELSE LET new_df == ColumnWise(df, PriorMap, PriorMoney, FALSE, TRUE, {})
             valid == SelectSeq(new_df, LAMBDA r : TitleKept(r["prdctClsfcNoNm"]))
             kept == apply_exclusion_filter(valid, "prdctClsfcNoNm", exclude_keywords)
         IN  {Table(ColIds(PriorMap) \cup {"No"}, Renumber(sorted)) :
                 sorted \in sort_values(kept, "rcptDt", TRUE)}

\* int(base_price * 0.87745) for base_price > 0 (the float product and the
\* exact one have the same integer part for the amounts up to 2,000,000)
MinBidOf(base_price) ==
    (base_price \div 20000) * 17549 + ((base_price % 20000) * 17549) \div 20000

\* the estimated price taken as the base before the budget
calc_min_bid_EstimFirst(row) ==
    LET budget == row["asignBdgtAmt"]
        estim == row["presmptPrce"]
        base_price == IF notna(estim) /\ estim.i > 0 THEN estim ELSE budget
    IN  IF notna(base_price) /\ base_price.i > 0 THEN MinBidOf(base_price.i) ELSE 0

\* calc_min_bid(row)
calc_min_bid(row) ==
    LET budget == row["asignBdgtAmt"]
        estim == row["presmptPrce"]
        base_price == IF notna(budget) /\ budget.i > 0 THEN budget ELSE estim
    IN  IF notna(base_price) /\ base_price.i > 0 THEN MinBidOf(base_price.i) ELSE 0

\* the tables process_bid_for_excel(df, exclude_keywords) may return; with no
\* column of col_map in df, new_df has no row, apply gives back a frame and
\* the assignment of the derived column raises or not with the pandas at hand
process_bid_for_excel(df, exclude_keywords) ==
    IF empty(df) THEN {EmptyTable}
    ELSE IF FirstFound(df, BidMap, FALSE) = 0
    THEN {Raised, Table(ColIds(BidMap) \cup {"No", "minBid"}, <<>>)}
    ELSE LET mapped == ColumnWise(df, BidMap, BidMoney, FALSE, TRUE, {"minBid"})
             new_df == [j \in 1..Len(mapped) |->
                          [mapped[j] EXCEPT !["minBid"] = IntCell(calc_min_bid(mapped[j]))]]
             valid == SelectSeq(new_df, LAMBDA r : TitleKept(r["bidNtceNm"]))
             kept == apply_exclusion_filter(valid, "bidNtceNm", exclude_keywords)
         IN  {Table(ColIds(BidMap) \cup {"No", "minBid"}, Renumber(sorted)) :
                 sorted \in sort_values(kept, "bidNtceDt", TRUE)}

\* the tables process_rd_for_excel(df, keywords, exclude_keywords) may return
process_rd_for_excel(df, kws, exclude_keywords) ==
    IF empty(df) THEN {EmptyTable}
    ELSE LET new_df == ColumnWise(df, RDMap, {}, TRUE, FALSE, {})
             matched == IF kws = <<>> THEN new_df
                        ELSE SelectSeq(new_df, LAMBDA r :
                                \E q \in 1..Len(kws) : Contains(kws[q], Str(r["subject"])))
             kept == apply_exclusion_filter(matched, "subject", exclude_keywords)
         IN  {Table(ColIds(RDMap) \cup {"No"}, Renumber(sorted)) :
                 sorted \in sort_values(kept, "regDate", FALSE)}

-----------------------------------------------------------------------------
(* convert_df_to_excel.apply_styles: the loop over the data rows.          *)

SheetNames == {"order", "prior", "bid", "rd"}

\* a header cell is one of '입찰마감일시', '공고종료일': the bid-notice table alone has one
HasDeadlineCol(sheet) == sheet = "bid"

\* the sheet has one of the columns '규격서URL', '공고링크(URL)', '공고URL'
HasUrlCol(sheet) == sheet \in {"prior", "bid", "rd"}

URGENT_DAYS == 7

\* a deadline cell: empty, a text pd.to_datetime rejects, or a date/time t
EmptyCell == [filled |-> FALSE, parses |-> FALSE, t |-> 0]
TextCell == [filled |-> TRUE, parses |-> FALSE, t |-> 0]
DateCell(t) == [filled |-> TRUE, parses |-> TRUE, t |-> t]

\* distances of a deadline from now, in seconds
Offsets == {-DAY, -1, 0, 1, DAY, URGENT_DAYS * DAY - 1, URGENT_DAYS * DAY,
            URGENT_DAYS * DAY + 1, (URGENT_DAYS + 1) * DAY - 1, (URGENT_DAYS + 1) * DAY}

DeadlineCells(sheet, t0) ==
    IF HasDeadlineCol(sheet)
    THEN {EmptyCell, TextCell} \cup {DateCell(t0 + d) : d \in Offsets}
    ELSE {EmptyCell}

UrlCells(sheet) == IF HasUrlCol(sheet) THEN {"", "u"} ELSE {""}

\* timedelta.days of the difference d - t0: whole days, rounded down
DeltaDays(d, t0) == (d - t0) \div DAY

\* is_urgent of a row with deadline cell c, at now = t0
is_urgent(sheet, c, t0) ==
    /\ HasDeadlineCol(sheet)
    /\ c.filled
    /\ c.parses
    /\ DeltaDays(c.t, t0) <= URGENT_DAYS
    /\ c.t > t0

\* font and fill of the cells of a row: a cell outside the URL columns, and
\* the cell of the URL column
StyleCells(sheet, row, urgent) ==
    LET plainFont == IF urgent THEN "urgent" ELSE "default"
        plainFill == IF urgent THEN "yellow" ELSE "none"
        linked == HasUrlCol(sheet) /\ row.url # ""
    IN  [is_urgent |-> urgent,
         font |-> [plain |-> plainFont, url |-> IF linked THEN "link" ELSE plainFont],
         fill |-> [plain |-> plainFill, url |-> plainFill],
         hyperlink |-> IF linked THEN row.url ELSE ""]

RECURSIVE SeqsUpTo(_, _)
\* the sequences over S of length at most n
SeqsUpTo(S, n) ==
    IF n = 0 THEN {<<>>}
    ELSE LET shorter == SeqsUpTo(S, n - 1)
         IN  shorter \cup {Append(q, x) : q \in {r \in shorter : Len(r) = n - 1}, x \in S}

\* df.to_excel has written the non-empty table to the sheet
SheetInit ==
    /\ sheet_name \in SheetNames
    /\ sheet_now \in NowValues
    /\ ws \in SeqsUpTo([deadline : DeadlineCells(sheet_name, sheet_now),
                         url : UrlCells(sheet_name)], MaxSheetRows) \ {<<>>}
    /\ styled = <<>>

\* for row in ws.iter_rows(min_row=2): one row
StyleRow ==
    /\ UNCHANGED <<fetchVars, runVars, normVars>>
    /\ Len(styled) < Len(ws)
    /\ LET row == ws[Len(styled) + 1] IN
       styled' = Append(styled,
                        StyleCells(sheet_name, row,
                                   is_urgent(sheet_name, row.deadline, sheet_now)))
    /\ UNCHANGED <<sheet_name, ws, sheet_now>>

-----------------------------------------------------------------------------
(* The raw records the normalizers are run on, and the normalizer calls    *)
(* of the pipeline.                                                        *)

\* order-plan records: a full one, then one field changed at a time
OrderRecords ==
    {<<<<bizNm, <<"a", "b">>>>, <<sumOrderAmt, <<"1", ",", "2", "3", "4", ",", "5", "6", "7">>>>, <<orderYear, <<"2", "6">>>>, <<orderMnth, <<"3">>>>>>,
     <<<<bizNm, <<>>>>, <<sumOrderAmt, <<"1", ",", "2", "3", "4", ",", "5", "6", "7">>>>, <<orderYear, <<"2", "6">>>>, <<orderMnth, <<"3">>>>>>,
     <<<<Tg("BIZNM", "biznm"), <<"a", "b">>>>, <<sumOrderAmt, <<"1", ",", "2", "3", "4", ",", "5", "6", "7">>>>, <<orderYear, <<"2", "6">>>>, <<orderMnth, <<"3">>>>>>,
     <<<<sumOrderAmt, <<"1", ",", "2", "3", "4", ",", "5", "6", "7">>>>, <<orderYear, <<"2", "6">>>>, <<orderMnth, <<"3">>>>>>,
     <<<<bizNm, <<>>>>, <<cntrctNm, <<"b">>>>, <<sumOrderAmt, <<"1", ",", "2", "3", "4", ",", "5", "6", "7">>>>, <<orderYear, <<"2", "6">>>>, <<orderMnth, <<"3">>>>>>,
     <<<<bizNm, <<"a">>>>, <<sumOrderAmt, <<"1", ",", "2", "3", "4", ",", "5", "6", "7">>>>, <<orderYear, <<"2", "5">>>>, <<orderMnth, <<"3">>>>>>,
     <<<<bizNm, <<"a", "b">>>>, <<sumOrderAmt, <<>>>>, <<orderYear, <<"2", "6">>>>, <<orderMnth, <<"3">>>>>>,
     <<<<bizNm, <<"a", "b">>>>, <<orderYear, <<"2", "6">>>>, <<orderMnth, <<"3">>>>>>,
     <<<<bizNm, <<"a", "b">>>>, <<sumOrderAmt, <<"n", "o", "t", "-", "a", "-", "n", "u", "m", "b", "e", "r">>>>, <<orderYear, <<"2", "6">>>>, <<orderMnth, <<"3">>>>>>,
     <<<<bizNm, <<"a", "b">>>>, <<totlAmt, <<"1", "2", ".", "9">>>>, <<orderYear, <<"2", "6">>>>, <<orderMnth, <<"3">>>>>>,
     <<<<bizNm, <<"a", "b">>>>, <<sumOrderAmt, <<"1", ",", "2", "3", "4", ",", "5", "6", "7">>>>, <<orderYear, <<"2", "6">>>>, <<orderMnth, <<"1", "1">>>>>>,
     <<<<bizNm, <<"a", "b">>>>, <<sumOrderAmt, <<"1", ",", "2", "3", "4", ",", "5", "6", "7">>>>, <<orderMnth, <<"3">>>>>>}

\* prior-spec records
PriorRecords ==
    {<<<<bsnsDivNm, <<"a">>>>, <<prdctClsfcNoNm, <<"a", "b">>>>, <<asignBdgtAmt, <<"1", ",", "2", "3", "4", ",", "5", "6", "7">>>>, <<rcptDt, <<"2">>>>>>,
     <<<<bsnsDivNm, <<"a">>>>, <<prdctClsfcNoNm, <<>>>>, <<asignBdgtAmt, <<"1", ",", "2", "3", "4", ",", "5", "6", "7">>>>, <<rcptDt, <<"2">>>>>>,
     <<<<bsnsDivNm, <<"a">>>>, <<Tg("PRDCTCLSFCNONM", "prdctclsfcnonm"), <<"a", "b">>>>, <<asignBdgtAmt, <<"1", ",", "2", "3", "4", ",", "5", "6", "7">>>>, <<rcptDt, <<"2">>>>>>,
     <<<<bsnsDivNm, <<"a">>>>, <<asignBdgtAmt, <<"1", ",", "2", "3", "4", ",", "5", "6", "7">>>>, <<rcptDt, <<"2">>>>>>,
     <<<<asignBdgtAmt, <<"1", ",", "2", "3", "4", ",", "5", "6", "7">>>>, <<rcptDt, <<"2">>>>>>,
     <<<<bsnsDivNm, <<"a">>>>, <<prdctClsfcNoNm, <<"a">>>>, <<asignBdgtAmt, <<"1", ",", "2", "3", "4", ",", "5", "6", "7">>>>, <<rcptDt, <<"1">>>>>>,
     <<<<bsnsDivNm, <<"a">>>>, <<prdctClsfcNoNm, <<"a", "b">>>>, <<asignBdgtAmt, <<>>>>, <<rcptDt, <<"2">>>>>>,
     <<<<bsnsDivNm, <<"a">>>>, <<prdctClsfcNoNm, <<"a", "b">>>>, <<rcptDt, <<"2">>>>>>,
     <<<<bsnsDivNm, <<"a">>>>, <<prdctClsfcNoNm, <<"a", "b">>>>, <<asignBdgtAmt, <<"n", "o", "t", "-", "a", "-", "n", "u", "m", "b", "e", "r">>>>, <<rcptDt, <<"2">>>>>>,
     <<<<bsnsDivNm, <<"a">>>>, <<prdctClsfcNoNm, <<"a", "b">>>>, <<asignBdgtAmt, <<"1", ",", "2", "3", "4", ",", "5", "6", "7">>>>>>,
     <<<<Tg("etc", "etc"), <<"a">>>>>>}

\* bid-notice records
BidRecords ==
    {<<<<bidNtceNo, <<"1">>>>, <<bidNtceNm, <<"a", "b">>>>, <<bidNtceDt, <<"2">>>>, <<asignBdgtAmt, <<"1", ",", "0", "0", "0", ",", "0", "0", "0">>>>, <<presmptPrce, <<"0">>>>>>,
     <<<<bidNtceNo, <<"1">>>>, <<bidNtceNm, <<>>>>, <<bidNtceDt, <<"2">>>>, <<asignBdgtAmt, <<"1", ",", "0", "0", "0", ",", "0", "0", "0">>>>, <<presmptPrce, <<"0">>>>>>,
     <<<<bidNtceNo, <<"1">>>>, <<Tg("BIDNTCENM", "bidntcenm"), <<"a", "b">>>>, <<bidNtceDt, <<"2">>>>, <<asignBdgtAmt, <<"1", ",", "0", "0", "0", ",", "0", "0", "0">>>>, <<presmptPrce, <<"0">>>>>>,
     <<<<bidNtceNo, <<"1">>>>, <<bidNtceDt, <<"2">>>>, <<asignBdgtAmt, <<"1", ",", "0", "0", "0", ",", "0", "0", "0">>>>, <<presmptPrce, <<"0">>>>>>,
     <<<<bidNtceNm, <<"a", "b">>>>, <<bidNtceDt, <<"2">>>>>>,
     <<<<bidNtceNo, <<"2">>>>, <<bidNtceNm, <<"a">>>>, <<bidNtceDt, <<"1">>>>, <<asignBdgtAmt, <<"0">>>>, <<presmptPrce, <<"2", ",", "0", "0", "0", ",", "0", "0", "0">>>>>>,
     <<<<bidNtceNo, <<"1">>>>, <<bidNtceNm, <<"a", "b">>>>, <<bidNtceDt, <<"2">>>>, <<asignBdgtAmt, <<"n", "o", "t", "-", "a", "-", "n", "u", "m", "b", "e", "r">>>>>>,
     <<<<bidNtceNo, <<"1">>>>, <<bidNtceNm, <<"a", "b">>>>, <<bidNtceDt, <<"2">>>>, <<asignBdgtAmt, <<>>>>, <<presmptPrce, <<>>>>>>,
     <<<<bidNtceNo, <<"1">>>>, <<bidNtceNm, <<"a", "b">>>>, <<bidNtceDt, <<"2">>>>, <<presmptPrce, <<"-", "5">>>>, <<bidPrtcptFee, <<"1", ",", "2", "3", "4", ",", "5", "6", "7">>>>>>,
     <<<<bidNtceNo, <<"1">>>>, <<bidNtceNm, <<"a", "b">>>>, <<asignBdgtAmt, <<"1", ",", "0", "0", "0", ",", "0", "0", "0">>>>, <<presmptPrce, <<"0">>>>>>,
     <<<<bidNtceNo, <<"3">>>>, <<bidNtceNm, <<"a", "b">>>>, <<bidNtceDt, <<"2">>>>, <<asignBdgtAmt, <<"3">>>>, <<presmptPrce, <<"1", ",", "2", "3", "4", ",", "5", "6", "7">>>>>>,
     <<<<bidNtceNo, <<"4">>>>, <<bidNtceNm, <<"a", "b">>>>, <<bidNtceDt, <<"2">>>>, <<asignBdgtAmt, <<"0">>>>, <<presmptPrce, <<"1", ",", "2", "3", "4", ",", "5", "6", "7">>>>>>,
     <<<<Tg("etc", "etc"), <<"a">>>>>>}

\* RD-notice records
RDRecords ==
    {<<<<subject, <<"a", "b">>>>, <<deptName, <<"a">>>>, <<regDate, <<"2">>>>, <<viewUrl, <<"u">>>>>>,
     <<<<subject, <<>>>>, <<deptName, <<"a">>>>, <<regDate, <<"2">>>>, <<viewUrl, <<"u">>>>>>,
     <<<<Tg("SUBJECT", "subject"), <<"a", "b">>>>, <<deptName, <<"a">>>>, <<regDate, <<"2">>>>, <<viewUrl, <<"u">>>>>>,
     <<<<deptName, <<"a">>>>, <<regDate, <<"2">>>>, <<viewUrl, <<"u">>>>>>,
     <<<<subject, <<"a">>>>, <<deptName, <<"a">>>>, <<regDate, <<"1">>>>, <<viewUrl, <<"u">>>>>>,
     <<<<subject, <<"a", "b">>>>, <<deptName, <<"a">>>>, <<viewUrl, <<"u">>>>>>,
     <<<<subject, <<"b">>>>, <<deptName, <<"a">>>>, <<regDate, <<"2">>>>, <<viewUrl, <<>>>>>>,
     <<<<Tg("SUBJECT", "subject"), <<"a", "b">>>>>>,
     <<<<Tg("etc", "etc"), <<"a">>>>>>}

Sources == {"order", "prior", "bid", "rd"}

RawRecords(src) ==
    CASE src = "order" -> OrderRecords
      [] src = "prior" -> PriorRecords
      [] src = "bid" -> BidRecords
      [] src = "rd" -> RDRecords

\* the keyword lists of a run: none, or one keyword
KeywordTexts == {<<>>, <<<<"a">>>>}
ExcludeTexts == {<<>>, <<<<"b">>>>}

\* the raw records of a source are fetched; the normalizer is not called yet
NormInit ==
    /\ source \in Sources
    /\ raw \in SeqsUpTo(RawRecords(source), MaxRaw)
    /\ in_keywords \in (IF source = "rd" THEN KeywordTexts ELSE {<<>>})
    /\ exclude_kws \in ExcludeTexts
    /\ npc = "raw"
    /\ table = EmptyTable

\* df_order = process_order_for_excel(pd.DataFrame(all_o).drop_duplicates(), exclude_keywords)
NormOrder ==
    /\ UNCHANGED <<fetchVars, runVars, sheetVars>>
    /\ npc = "raw" /\ source = "order"
    /\ table' \in process_order_for_excel(DataFrame(raw), exclude_kws)
    /\ npc' = "done"
    /\ UNCHANGED <<source, raw, in_keywords, exclude_kws>>

\* df_prior = process_prior_for_excel(pd.DataFrame(all_p).drop_duplicates(), exclude_keywords)
NormPrior ==
    /\ UNCHANGED <<fetchVars, runVars, sheetVars>>
    /\ npc = "raw" /\ source = "prior"
    /\ table' \in process_prior_for_excel(DataFrame(raw), exclude_kws)
    /\ npc' = "done"
    /\ UNCHANGED <<source, raw, in_keywords, exclude_kws>>

\* df_bid = process_bid_for_excel(pd.DataFrame(all_b).drop_duplicates(), exclude_keywords)
NormBid ==
    /\ UNCHANGED <<fetchVars, runVars, sheetVars>>
    /\ npc = "raw" /\ source = "bid"
    /\ table' \in process_bid_for_excel(DataFrame(raw), exclude_kws)
    /\ npc' = "done"
    /\ UNCHANGED <<source, raw, in_keywords, exclude_kws>>

\* df_rd = process_rd_for_excel(pd.DataFrame(all_rd_raw).drop_duplicates(), keywords, exclude_keywords)
NormRD ==
    /\ UNCHANGED <<fetchVars, runVars, sheetVars>>
    /\ npc = "raw" /\ source = "rd"
    /\ table' \in process_rd_for_excel(DataFrame(raw), in_keywords, exclude_kws)
    /\ npc' = "done"
    /\ UNCHANGED <<source, raw, in_keywords, exclude_kws>>

-----------------------------------------------------------------------------
(* The specifications.                                                     *)

\* the run is not part of a lone Fetcher call
RunIdle ==
    /\ checks = [order |-> FALSE, prior |-> FALSE, bid |-> FALSE, rd |-> FALSE]
    /\ keywords = <<>>
    /\ bid_months = 1
    /\ pos = Pos("done", 1, 0)
    /\ now = 0
    /\ all_rd_raw = <<>>
    /\ all_o = <<>>
    /\ all_p = <<>>
    /\ all_results = <<>>
    /\ events = <<>>
    /\ lastCall = NoCall

\* the page loop of a run's calls is inside its actions
FetchIdle ==
    /\ url = ""
    /\ page = 1
    /\ all_items = <<>>
    /\ fpc = "returned"
    /\ requested = <<>>
    /\ answers = <<>>
    /\ warnings = 0
    /\ turn = 0

\* no sheet is being styled
SheetIdle ==
    /\ sheet_name = ""
    /\ ws = <<>>
    /\ sheet_now = 0
    /\ styled = <<>>

\* no normalizer is at work
NormIdle ==
    /\ source = ""
    /\ raw = <<>>
    /\ in_keywords = <<>>
    /\ exclude_kws = <<>>
    /\ npc = "done"
    /\ table = EmptyTable

\* one call of fetch_data_from_api, page by page
Init == FetchInit /\ RunIdle /\ SheetIdle /\ NormIdle

Next == FetchPage

Spec == Init /\ [][Next]_vars

\* one call of fetch_data_from_api with every pass of its loop followed: a
\* pass ends (requests.get has a timeout and nothing else waits), so the
\* loop is never left standing while it has a pass to make
NextLive == FetchPass

SpecLive == Init /\ [][NextLive]_vars /\ WF_vars(NextLive)

\* one pipeline run, call by call
InitRun == RunInit /\ FetchIdle /\ SheetIdle /\ NormIdle

NextRun == RunRD \/ RunOrder \/ RunPrior \/ BidStart \/ BidFetch \/ BidProgress

SpecRun == InitRun /\ [][NextRun]_vars

\* the styling of one sheet, row by row
InitSheet == SheetInit /\ FetchIdle /\ RunIdle /\ NormIdle

NextSheet == StyleRow

SpecSheet == InitSheet /\ [][NextSheet]_vars

\* the normalization of the raw records of one source
InitNorm == NormInit /\ FetchIdle /\ RunIdle /\ SheetIdle

NextNorm == NormOrder \/ NormPrior \/ NormBid \/ NormRD

SpecNorm == InitNorm /\ [][NextNorm]_vars

-----------------------------------------------------------------------------
(* Properties of one fetch_data_from_api call (specification Spec).        *)

RECURSIVE SumParsed(_, _)
\* items delivered by the first i answers of as
SumParsed(as, i) == IF i = 0 THEN 0 ELSE SumParsed(as, i - 1) + Parsed(as[i])

\* the requests so far are pages 1, 2, 3, ... in order, each exactly once
PagesInOrder ==
    /\ Len(requested) = Len(answers)
    /\ \A i \in 1..Len(requested) :
         requested[i] = [pageNo |-> i, numOfRows |-> NumOfRows(url)]

\* every answer so far is HTTP 200 with at least one item and a numeric totalCount
AllCounted ==
    \A i \in 1..Len(answers) :
        ~Failed(answers[i]) /\ answers[i].n >= 1
        /\ answers[i].hasTotal /\ answers[i].totalOk

\* after page i the accumulated item count has reached the totalCount page i reports
TotalReached(i) == SumParsed(answers, i) >= answers[i].total

\* C1: on a non-RD endpoint whose answers are all HTTP 200 with items and a
\* totalCount, the pages are requested 1, 2, 3, ... in order, the call has
\* returned exactly when the last page requested is one at which the
\* accumulated count reached the reported totalCount, and no earlier page
\* was such a page (so nothing is requested after it and it never stops early).
C1_StopsAtTotalCount ==
    (~IsRD(url) /\ AllCounted) =>
        /\ PagesInOrder
        /\ \A i \in 1..Len(answers) :
             TotalReached(i) <=> (i = Len(answers) /\ fpc = "returned")

\* C1 witness: a non-RD call that returned after its second page, which
\* completed the total with fewer than 500 items on it
C1_Witness ==
    /\ ~IsRD(url) /\ AllCounted /\ fpc = "returned"
    /\ Len(answers) = 2
    /\ answers[2].n < STD_NUM_OF_ROWS
    /\ Len(all_items) = answers[2].total

\* the RD call is where its loop rules put it: returned exactly when the last
\* page requested gave fewer than 10 items or was page 30, no earlier page
\* being such a page; page 31 is never requested
RDStopRule ==
    /\ PagesInOrder
    /\ Len(requested) <= RD_PAGE_CAP
    /\ \A i \in 1..Len(answers) :
         (Parsed(answers[i]) < RD_NUM_OF_ROWS \/ i = RD_PAGE_CAP)
             <=> (i = Len(answers) /\ fpc = "returned")

\* C2 as stated: the RD call follows the stop rule and its list never holds
\* more than 300 items, whatever the server answers
C2_Original ==
    IsRD(url) => (RDStopRule /\ Len(all_items) <= RD_PAGE_CAP * RD_NUM_OF_ROWS)

\* C2 amended: the RD call stops after the first page with fewer than 10
\* items or after page 30, page 31 is never requested, and the list holds
\* the items of at most 30 pages: at most 300 when no page carries more
\* than the 10 items asked for
C2_RDStopsByShortPageOrCap ==
    IsRD(url) =>
        /\ RDStopRule
        /\ Len(all_items) = SumParsed(answers, Len(answers))
        /\ (Oversized(answers, url) = 0
               => Len(all_items) <= RD_PAGE_CAP * RD_NUM_OF_ROWS)

\* C2 witness: the RD call returned after page 30 with 300 items
C2_Witness ==
    /\ IsRD(url) /\ fpc = "returned"
    /\ Len(requested) = RD_PAGE_CAP
    /\ Len(all_items) = RD_PAGE_CAP * RD_NUM_OF_ROWS

\* C11 as stated: the call has emitted the server-error notice exactly when
\* its endpoint is the RD one and the answer to its page 1 was HTTP 500;
\* a 500 on page 1 of another endpoint, or on a later page, emits none.
C11_WarningOnlyForRDPageOne ==
    warnings = (IF /\ IsRD(url)
                   /\ Len(answers) >= 1
                   /\ ~answers[1].exc
                   /\ answers[1].status = 500
                THEN 1 ELSE 0)

\* C14 as stated: every call of fetch_data_from_api returns after finitely
\* many page requests, whatever the server answers (also when every answer
\* is a 200 with items and no totalCount).
C14_EveryFetchReturns == <>(fpc = "returned")

-----------------------------------------------------------------------------
(* Properties of one pipeline run (specification SpecRun).                 *)

RECURSIVE ItemsOfPages(_, _)
\* the items of the first i answers of as, in page order
ItemsOfPages(as, i) ==
    IF i = 0 THEN <<>> ELSE ItemsOfPages(as, i - 1) \o PageItems(i, Parsed(as[i]))

\* the Fetcher calls the run makes in all, whatever they return
PlannedFetches ==
    (IF checks.rd THEN 1 ELSE 0)
    + (IF checks.order THEN 2 * Len(keywords) ELSE 0)
    + (IF checks.prior THEN Len(keywords) ELSE 0)
    + (IF checks.bid THEN bid_months * Len(keywords) ELSE 0)

FetchEvents == SelectSeq(events, LAMBDA e : e.ev = "fetch")
BidCalls == SelectSeq(events, LAMBDA e : e.ev = "fetch" /\ e.url = BID_NOTICE_URL)
ProgressCalls == SelectSeq(events, LAMBDA e : e.ev = "progress")

\* the latest call met a failed answer as its page k
FailedAt(k) ==
    /\ lastCall.url # ""
    /\ k \in 1..Len(lastCall.answers)
    /\ Failed(lastCall.answers[k])
    /\ \A i \in 1..(k - 1) : ~Failed(lastCall.answers[i])

\* C3: a call whose page k fails sends no request after it (pages 1..k, each
\* once), returns to its caller with exactly the items of pages 1..k-1 in
\* page order, and the run goes on: it is never stuck before its end and at
\* its end it has made every call it planned.
C3_FailureEndsOnlyTheFetch ==
    /\ \A k \in 1..Len(lastCall.answers) :
         FailedAt(k) =>
            /\ lastCall.returned
            /\ lastCall.requested = [i \in 1..k |-> Request(lastCall.url, i)]
            /\ lastCall.items = ItemsOfPages(lastCall.answers, k - 1)
    /\ pos.st # "done" => ENABLED NextRun
    /\ pos.st = "done" => Len(FetchEvents) = PlannedFetches

\* C3 witness: a call failed on its page 2, kept the items of page 1, and
\* the run has work left
C3_Witness ==
    /\ FailedAt(2)
    /\ lastCall.items # <<>>
    /\ pos.st \notin {"done", "progress"}
    /\ Len(FetchEvents) < PlannedFetches

\* minutes of one window
WindowMinutes == WINDOW_DAYS * (DAY \div MINUTE)

\* C5: the bid-notice calls are one per (window, keyword), windows 0..N-1 in
\* order and the keywords in list order inside each; a call of window i
\* carries the minute stamps of now - (i+1)*30 days and now - i*30 days for
\* the one now of the split, so a window spans 30 days, window 0 ends at now,
\* window i+1 ends where window i begins, and at the end there are N*|K| calls.
C5_WindowsCoverLookback ==
    LET K == Len(keywords) IN
    /\ \A m \in 1..Len(BidCalls) :
         LET e == BidCalls[m]
             i == (m - 1) \div K
         IN  /\ i < bid_months
             /\ e.w = i
             /\ e.kw = keywords[((m - 1) % K) + 1]
             /\ e.end = Strftime(now) - i * WindowMinutes
             /\ e.bgn = Strftime(now) - (i + 1) * WindowMinutes
             /\ e.end - e.bgn = WindowMinutes
             /\ (i = 0 => e.end = Strftime(now))
             /\ (m > K => e.end = BidCalls[m - K].bgn)
    /\ (pos.st = "done" /\ checks.bid) =>
          /\ Len(BidCalls) = bid_months * K
          /\ (K > 0 => BidCalls[Len(BidCalls)].bgn
                          = Strftime(now) - bid_months * WindowMinutes)
    /\ (~checks.bid => BidCalls = <<>>)

\* C5 witness: a finished split over 2 months and 2 keywords, begun inside a minute
C5_Witness ==
    /\ pos.st = "done" /\ checks.bid
    /\ bid_months = 2 /\ Len(keywords) = 2
    /\ now % MINUTE # 0
    /\ Len(BidCalls) = 4

\* C6: the k-th progress callback carries (k, N) and comes when exactly the
\* calls of windows 0..k-1 have been made (all returned, none of window k
\* begun); a finished split has made N callbacks, whatever the calls
\* returned and also with no keyword.
C6_ProgressOncePerWindow ==
    /\ \A j \in 1..Len(events) :
         events[j].ev = "progress" =>
            LET before == SubSeq(events, 1, j - 1)
                k == Len(SelectSeq(before, LAMBDA e : e.ev = "progress")) + 1
                fetched == Len(SelectSeq(before,
                               LAMBDA e : e.ev = "fetch" /\ e.url = BID_NOTICE_URL))
            IN  /\ events[j].current = k
                /\ events[j].total = bid_months
                /\ k <= bid_months
                /\ fetched = k * Len(keywords)
    /\ (pos.st = "done" /\ checks.bid) => Len(ProgressCalls) = bid_months
    /\ (~checks.bid => ProgressCalls = <<>>)

\* C6 witness: the second callback of a split whose latest call failed on page 1
C6_Witness ==
    /\ Len(events) > 0
    /\ events[Len(events)].ev = "progress"
    /\ events[Len(events)].current = 2
    /\ lastCall.url = BID_NOTICE_URL
    /\ FailedAt(1)

-----------------------------------------------------------------------------
(* Properties of the styled sheet (specification SpecSheet).               *)

\* C4 as stated: a styled row is urgent if and only if its deadline cell
\* parses as a date/time d with now < d <= now + 7*24h (so 7*24h ahead is
\* urgent, one second more is not, at or before now never).
C4_UrgentWithinSevenDays ==
    \A i \in 1..Len(styled) :
        LET c == ws[i].deadline IN
        styled[i].is_urgent <=>
            (HasDeadlineCol(sheet_name) /\ c.filled /\ c.parses
             /\ sheet_now < c.t /\ c.t <= sheet_now + URGENT_DAYS * DAY)

\* C13 as stated: in a row marked urgent every cell, the cell of a
\* hyperlink column with a URL included, ends with the urgent font and the
\* yellow fill; in a row not marked urgent no cell has either.
C13_UrgentStyleOnEveryCell ==
    \A i \in 1..Len(styled) :
        IF styled[i].is_urgent
        THEN /\ styled[i].font.plain = "urgent" /\ styled[i].font.url = "urgent"
             /\ styled[i].fill.plain = "yellow" /\ styled[i].fill.url = "yellow"
        ELSE /\ styled[i].font.plain # "urgent" /\ styled[i].font.url # "urgent"
             /\ styled[i].fill.plain # "yellow" /\ styled[i].fill.url # "yellow"

-----------------------------------------------------------------------------
(* Properties of the normalized tables (specification SpecNorm).           *)

\* the title column of the table of a source, and the column it is sorted by
TitleCol(src) ==
    CASE src = "order" -> "bizName"
      [] src = "prior" -> "prdctClsfcNoNm"
      [] src = "bid" -> "bidNtceNm"
      [] src = "rd" -> "subject"

SortCol(src) ==
    CASE src = "order" -> "orderTiming"
      [] src = "prior" -> "rcptDt"
      [] src = "bid" -> "bidNtceDt"
      [] src = "rd" -> "regDate"

\* the money columns of the table of a source
MoneyCols(src) ==
    CASE src = "order" -> {"totalAmt"}
      [] src = "prior" -> {"asignBdgtAmt"}
      [] src = "bid" -> {"asignBdgtAmt", "presmptPrce", "bidPrtcptFee"}
      [] src = "rd" -> {}

\* the normalizer of the source has returned or raised
Normalized == npc = "done" /\ source \in Sources

\* a raw record has a field spelled sp
HasField(rec, sp) == \E f \in 1..Len(rec) : rec[f][1].sp = sp

\* C7: money coercion never raises in the order-plan, prior-spec and
\* bid-notice normalizers: whatever the money texts of the raw records
\* (missing, empty, "not-a-number", "1,234,567"), the normalizer returns a
\* table, and every money cell of it is a number.  Some record of the frame
\* carries a column of the schema.
C7_MoneyCoercionNeverRaises ==
    (/\ Normalized
     /\ source \in {"order", "prior", "bid"}
     /\ \E j \in 1..Len(raw) : ~HasField(raw[j], "etc"))
    => /\ ~table.raised
       /\ \A p \in 1..Len(table.rows) :
            \A c \in MoneyCols(source) : table.rows[p][c].k = "int"

\* C8: no row of the table a normalizer returns has a title that is a text
\* empty after trimming, for every source and every keyword lists.
C8_NoEmptyTitle ==
    (Normalized /\ ~table.raised)
    => \A p \in 1..Len(table.rows) :
          LET c == table.rows[p][TitleCol(source)] IN
          notna(c) => Strip(c.s) # <<>>

\* C9: in every table a normalizer returns, the 'No.' of the row at position
\* p is p (1..n, no gap, no repeat), the rows are distinct rows of the frame,
\* and the rows that have a value in the designated column stand in its
\* order: ascending for order plan, prior spec and bid notice, descending
\* for RD.
C9_DenseIndexInSortOrder ==
    (Normalized /\ ~table.raised)
    => /\ \A p \in 1..Len(table.rows) : table.rows[p]["No"] = IntCell(p)
       /\ \A p, q \in 1..Len(table.rows) :
            p < q =>
              LET a == table.rows[p]
                  b == table.rows[q]
                  x == a[SortCol(source)]
                  y == b[SortCol(source)]
              IN  /\ a["origin"] # b["origin"]
                  /\ (notna(x) /\ notna(y)) =>
                        IF source = "rd" THEN ~TextLess(x.s, y.s)
                        ELSE ~TextLess(y.s, x.s)

\* a table of two rows that the sort has exchanged
C9_Witness ==
    /\ Normalized
    /\ ~table.raised
    /\ Len(table.rows) = 2
    /\ table.rows[1]["origin"] = IntCell(2)
    /\ table.rows[1][SortCol(source)] # table.rows[2][SortCol(source)]
    /\ notna(table.rows[2][SortCol(source)])

\* C10: a raw record that carries its title only under the upper-cased
\* spelling of the tag yields that title in the normalized row, for every
\* source (no exclusion keyword at work).
C10_UpperCasedAliasResolves ==
    (/\ Normalized
     /\ Len(raw) = 1
     /\ exclude_kws = <<>>
     /\ \E f \in 1..Len(raw[1]) :
           /\ raw[1][f][1].sp \in {"BIZNM", "PRDCTCLSFCNONM", "BIDNTCENM", "SUBJECT"}
           /\ raw[1][f][2] = <<"a", "b">>)
    => /\ ~table.raised
       /\ Len(table.rows) = 1
       /\ table.rows[1][TitleCol(source)] = StrCell(<<"a", "b">>)

\* m is the whole part of base * 0.87745, for base > 0: with 0.87745 =
\* 17549/20000 and base = 20000*q + r, m = 17549*q + s where
\* 0 <= s < 17549 and 20000*s <= 17549*r < 20000*(s + 1)
IsFloorOfRate(m, base) ==
    LET q == base \div 20000
        r == base % 20000
        s == m - 17549 * q
    IN  /\ 0 <= s /\ s < 17549
        /\ 20000 * s <= 17549 * r
        /\ 17549 * r < 20000 * s + 20000

====
